---- MODULE Spec2Model ----
(***************************************************************************)
(* Model of blue-noise-canvas.                                             *)
(*                                                                         *)
(*   Spec     : the useBlueNoiseWorker hook (src/hooks/useBlueNoiseWorker) *)
(*              talking to its Web Worker by message passing.              *)
(*   SpecGen  : the worker's message handler (src/lib/blueNoiseWorker.ts)  *)
(*              run step by step on a request, twice over, so that         *)
(*              generator invariants are visible at every loop iteration.  *)
(*   SpecGrid : the SpatialGrid of the worker on its own, any points added.*)
(*   SpecGenFair : SpecGen with the handler running on to its answer.      *)
(*   SpecRaster : the animated mode of the PointRasterizer (spec 4.7),     *)
(*              chunk by chunk, with its cancellation handle.              *)
(*   SpecRender : renderBlueNoise (src/lib/blueNoise.ts), the immediate    *)
(*              rendering, loop by loop.                                   *)
(***************************************************************************)
EXTENDS Integers, Sequences, FiniteSets, TLC

VARIABLES
    \* ---- useBlueNoiseWorker ----
    mounted,              \* the component using the hook is mounted
    workerAlive,          \* workerRef.current was not terminated
    isGenerating,         \* useState: value after every queued setIsGenerating
    renderedIsGenerating, \* the isGenerating captured by the last committed render
    points,               \* useState: value after every queued setPoints
    pendingRequestRef,    \* pendingRequestRef.current
    inbox,                \* messages posted to the worker and not yet answered
    props,                \* the parameters of the last render (effect deps)
    submitted,            \* history: every generate() call, in order
    posted,               \* history: every workerRef.current.postMessage
    delivered,            \* history: every request whose result reached setPoints
    dropped,              \* history: ids of requests overwritten in the pending slot
    executingAtSubmit,    \* history: id the worker was executing at each generate(), 0 if idle
    \* ---- blueNoiseWorker: self.onmessage ----
    req,                  \* e.data of the message being handled
    gpc,                  \* where the handler is
    run,                  \* 1 or 2: the message is handled twice
    t,                    \* the state of the current createSeededRandom closure
    loopI,                \* generateMitchellPoints: the loop counter i
    genPoints,            \* generateMitchellPoints: points
    filledCells,          \* generateMitchellPoints: filledCells
    grid,                 \* SpatialGrid.grid: cell key -> points of the cell
    lastStep,             \* history: what the last loop iteration drew and did
    rMin,                 \* generateBridsonPoints: rMin
    rMax,                 \* generateBridsonPoints: rMax
    iter,                 \* generateBridsonPoints: iter
    r,                    \* generateBridsonPoints: r of the current trial
    bestPoints,           \* generateBridsonPoints: bestPoints
    bestDiff,             \* generateBridsonPoints: bestDiff
    samples,              \* runBridson: samples
    active,               \* runBridson: active
    cellGrid,             \* runBridson: grid (cell index -> sample index, -1)
    trials,               \* history: radius, seed and count of every trial
    trials1,              \* history: the trials of the first run
    response,             \* the array given to self.postMessage
    response1,            \* history: the response of the first run
    \* ---- PointRasterizer, animated mode ----
    rasterPoints,         \* the PointSet being rasterized
    pixelSize,            \* side of the block filled for a point
    chunkSize,            \* points per tick
    animId,               \* number of animated sequences started; the current one
    cursor,               \* points of the current sequence already drawn
    buffer,               \* the pixels holding the foreground colour
    visible,              \* the buffer as last committed
    tick,                 \* the sequence whose next chunk is scheduled, 0 if none
    cancelled,            \* the sequences whose cancellation handle was invoked
    completed,            \* the sequences whose completion callback fired
    chunksDrawn,          \* history: the sequence of every chunk drawn
    \* ---- renderBlueNoise (lib/blueNoise.ts) ----
    renderCall,           \* the arguments of the call
    renderLocals,         \* gridWidth, gridHeight, maxPoints, numPoints, points
    canvas,               \* the bytes of the canvas (what ctx shows)
    data,                 \* imageData.data
    writes,               \* history: every index of data assigned to
    rpc                   \* where renderBlueNoise is

hookVars == <<mounted, workerAlive, isGenerating, renderedIsGenerating,
              points, pendingRequestRef, inbox, props, submitted, posted,
              delivered, dropped, executingAtSubmit>>

\* ---------------------------------------------------------------- bounds
MaxSubmits == 4

\* numPoints and seed values the parent component may pass down
NumPointsValues == {0, 2}
SeedValues == {1, 2}

\* ------------------------------------------------------------ the hook
NoRequest == [id |-> 0, numPoints |-> 0, seed |-> 0]
NoProps == [numPoints |-> -1, seed |-> -1]

\* e.data of the worker's answer to a request: the hook never looks inside
\* it, so the model keeps only which request produced it.
WorkerOutput(request) == <<"pointsOf", request.id>>
EmptyPoints == <<>>

HookInit ==
    /\ mounted = TRUE
    /\ workerAlive = TRUE
    /\ isGenerating = FALSE
    /\ renderedIsGenerating = FALSE
    /\ points = EmptyPoints
    /\ pendingRequestRef = NoRequest
    /\ inbox = <<>>
    /\ props = NoProps
    /\ submitted = <<>>
    /\ posted = <<>>
    /\ delivered = <<>>
    /\ dropped = {}
    /\ executingAtSubmit = <<>>

\* A generate() whose early return also empties the pending slot.
generate_zeroClearsPending(request, seenGenerating) ==
    IF request.numPoints = 0
    THEN /\ points' = EmptyPoints
         /\ pendingRequestRef' = NoRequest
         /\ UNCHANGED <<isGenerating, inbox, posted, dropped>>
    ELSE IF seenGenerating
    THEN /\ pendingRequestRef' = request
         /\ dropped' = IF pendingRequestRef = NoRequest THEN dropped
                       ELSE dropped \cup {pendingRequestRef.id}
         /\ UNCHANGED <<isGenerating, points, inbox, posted>>
    ELSE /\ inbox' = Append(inbox, request)
         /\ posted' = Append(posted, request)
         /\ isGenerating' = TRUE
         /\ UNCHANGED <<points, pendingRequestRef, dropped>>

\* generate(), called by the effect of the render in which the parameters
\* changed; seenGenerating is the isGenerating that render captured.
generate(request, seenGenerating) ==
    IF request.numPoints = 0
    THEN /\ points' = EmptyPoints
         /\ UNCHANGED <<isGenerating, pendingRequestRef, inbox, posted, dropped>>
    ELSE IF seenGenerating
    THEN /\ pendingRequestRef' = request
         /\ dropped' = IF pendingRequestRef = NoRequest THEN dropped
                       ELSE dropped \cup {pendingRequestRef.id}
         /\ UNCHANGED <<isGenerating, points, inbox, posted>>
    ELSE /\ inbox' = Append(inbox, request)
         /\ posted' = Append(posted, request)
         /\ isGenerating' = TRUE
         /\ UNCHANGED <<points, pendingRequestRef, dropped>>

\* The parent re-renders the hook with new parameters and the effect runs
\* generate().  The render either processes the queued setIsGenerating
\* (fresh) or is a higher-priority render that skips it and still sees the
\* value of the previous render.
Submit(np, sd, fresh) ==
    /\ mounted
    /\ Len(submitted) < MaxSubmits
    /\ [numPoints |-> np, seed |-> sd] # props
    /\ LET request == [id |-> Len(submitted) + 1, numPoints |-> np, seed |-> sd]
           seen == IF fresh THEN isGenerating ELSE renderedIsGenerating
       IN /\ props' = [numPoints |-> np, seed |-> sd]
          /\ submitted' = Append(submitted, request)
          /\ executingAtSubmit' =
                 Append(executingAtSubmit, IF inbox = <<>> THEN 0 ELSE Head(inbox).id)
          /\ renderedIsGenerating' = seen
          /\ generate(request, seen)
    /\ UNCHANGED <<mounted, workerAlive, delivered>>

\* A re-render with unchanged parameters: the queued state updates are
\* processed, no effect runs.
Render ==
    /\ mounted
    /\ renderedIsGenerating # isGenerating
    /\ renderedIsGenerating' = isGenerating
    /\ UNCHANGED <<mounted, workerAlive, isGenerating, points,
                   pendingRequestRef, inbox, props, submitted, posted,
                   delivered, dropped, executingAtSubmit>>

\* onmessage that starts the pending request without emptying the slot.
onmessage_keepsPending ==
    /\ workerAlive
    /\ inbox # <<>>
    /\ points' = WorkerOutput(Head(inbox))
    /\ delivered' = Append(delivered, Head(inbox))
    /\ IF pendingRequestRef # NoRequest
       THEN /\ inbox' = Append(Tail(inbox), pendingRequestRef)
            /\ posted' = Append(posted, pendingRequestRef)
            /\ isGenerating' = TRUE
            /\ UNCHANGED pendingRequestRef
       ELSE /\ inbox' = Tail(inbox)
            /\ isGenerating' = FALSE
            /\ UNCHANGED <<pendingRequestRef, posted>>
    /\ UNCHANGED <<mounted, workerAlive, renderedIsGenerating, props,
                   submitted, dropped, executingAtSubmit>>

\* workerRef.current.onmessage: the worker answered its oldest message.
onmessage ==
    /\ workerAlive
    /\ inbox # <<>>
    /\ points' = WorkerOutput(Head(inbox))
    /\ delivered' = Append(delivered, Head(inbox))
    /\ IF pendingRequestRef # NoRequest
       THEN /\ pendingRequestRef' = NoRequest
            /\ inbox' = Append(Tail(inbox), pendingRequestRef)
            /\ posted' = Append(posted, pendingRequestRef)
            /\ isGenerating' = TRUE
       ELSE /\ inbox' = Tail(inbox)
            /\ isGenerating' = FALSE
            /\ UNCHANGED <<pendingRequestRef, posted>>
    /\ UNCHANGED <<mounted, workerAlive, renderedIsGenerating, props,
                   submitted, dropped, executingAtSubmit>>

\* A cleanup that unmounts without terminating the worker.
cleanup_noTerminate ==
    /\ mounted
    /\ mounted' = FALSE
    /\ UNCHANGED <<workerAlive, isGenerating, renderedIsGenerating, points,
                   pendingRequestRef, inbox, props, submitted, posted,
                   delivered, dropped, executingAtSubmit>>

\* The cleanup of the first effect: workerRef.current?.terminate().
cleanup ==
    /\ mounted
    /\ mounted' = FALSE
    /\ workerAlive' = FALSE
    /\ UNCHANGED <<isGenerating, renderedIsGenerating, points,
                   pendingRequestRef, inbox, props, submitted, posted,
                   delivered, dropped, executingAtSubmit>>


\* ------------------------------------------------- 32-bit word arithmetic
\* A 32-bit word is <<hi, lo>>, two 16-bit halves.
Two16 == 65536

RECURSIVE XorBits(_, _, _)
XorBits(a, b, n) ==
    IF n = 0 THEN 0
    ELSE ((a + b) % 2) + 2 * XorBits(a \div 2, b \div 2, n - 1)

RECURSIVE OrBits(_, _, _)
OrBits(a, b, n) ==
    IF n = 0 THEN 0
    ELSE (IF a % 2 = 1 \/ b % 2 = 1 THEN 1 ELSE 0)
         + 2 * OrBits(a \div 2, b \div 2, n - 1)

\* ^ and | on bytes, tabulated
XorByte == [a \in 0..255 |-> [b \in 0..255 |-> XorBits(a, b, 8)]]
OrByte == [a \in 0..255 |-> [b \in 0..255 |-> OrBits(a, b, 8)]]
Xor16(a, b) ==
    XorByte[a \div 256][b \div 256] * 256 + XorByte[a % 256][b % 256]

\* seed >>> 0
ToUint32(n) == <<(n \div Two16) % Two16, n % Two16>>
Xor32(a, b) == <<Xor16(a[1], b[1]), Xor16(a[2], b[2])>>
\* a | c for a constant c < 2^8
OrSmall(a, c) == <<a[1], (a[2] \div 256) * 256 + OrByte[a[2] % 256][c]>>
Add32(a, b) ==
    LET lo == a[2] + b[2]
    IN <<(a[1] + b[1] + lo \div Two16) % Two16, lo % Two16>>
\* a >>> s for 0 < s < 16
Shr32(a, s) ==
    LET p == 2 ^ s
    IN <<a[1] \div p, (a[2] \div p) + (a[1] % p) * (Two16 \div p)>>
\* the 32-bit product of two 16-bit numbers
Mul16(a, b) ==
    LET p1 == a * (b \div 256)
        p0 == a * (b % 256)
        low == (p1 % 256) * 256 + p0
    IN <<(p1 \div 256 + low \div Two16) % Two16, low % Two16>>
\* Math.imul
Imul(a, b) ==
    LET ll == Mul16(a[2], b[2])
        hl == Mul16(a[1], b[2])
        lh == Mul16(a[2], b[1])
    IN <<(ll[1] + hl[2] + lh[2]) % Two16, ll[2]>>

\* ------------------------------------------------------ createSeededRandom
\* 0x6D2B79F5
MulberryIncrement == <<27947, 31221>>

\* A generator that is not reseeded: it goes on from the state the last
\* closure was left in.
createSeededRandom_shared(seed) == t

\* let t = seed >>> 0
createSeededRandom(seed) == ToUint32(seed)

\* One call of the closure on state s: the new state (t is only ever read
\* through 32-bit operators, so it is kept modulo 2^32) and the 32-bit
\* numerator u of the result u / 4294967296.
\* return ((x ^ (x >>> 14)) >>> 0) / 4294967296
randomResult(t1, x) == [t |-> t1, u |-> Xor32(x, Shr32(x, 14))]
\* x ^= x + Math.imul(x ^ (x >>> 7), x | 61)
randomMix(t1, x) ==
    randomResult(t1, Xor32(x, Add32(x, Imul(Xor32(x, Shr32(x, 7)),
                                            OrSmall(x, 61)))))
\* x = Math.imul(x ^ (x >>> 15), x | 1)
randomStep(t1) == randomMix(t1, Imul(Xor32(t1, Shr32(t1, 15)), OrSmall(t1, 1)))
\* t += 0x6D2B79F5
random(s) == randomStep(Add32(s, MulberryIncrement))

\* Math.round in the place of Math.floor.
RoundMul(u, w) == (u[1] * w + (u[2] * w) \div Two16 + Two16 \div 2) \div Two16

\* Math.floor(random() * w) for an integer w: u * w has fewer than 53 bits,
\* so the double product is exact.
FloorMul(u, w) == (u[1] * w + (u[2] * w) \div Two16) \div Two16

\* ------------------------------------------------------------ SpatialGrid
\* Infinity, for squared distances (every real one is smaller)
Infinity == 2147483647

Max(a, b) == IF a > b THEN a ELSE b
Min(a, b) == IF a < b THEN a ELSE b

\* Math.floor(x / cellSize) with
\* cellSize = Math.max(Math.sqrt(totalCells / Math.max(numPoints, 1)) / 2, 1),
\* computed on integers: cellSize^2 = max(tc / (4 n), 1).
CellCoord(x, tc, n) ==
    IF tc <= 4 * n THEN x
    ELSE IF x >= 0
    THEN CHOOSE k \in 0..(2 * x) :
             /\ k * k * tc <= 4 * n * x * x
             /\ (k + 1) * (k + 1) * tc > 4 * n * x * x
    ELSE -(CHOOSE k \in 0..(2 * (-x)) :
             /\ k * k * tc >= 4 * n * x * x
             /\ (k = 0 \/ (k - 1) * (k - 1) * tc < 4 * n * x * x))

\* SpatialGrid.getKey
getKey(p, tc, n) == <<CellCoord(p[1], tc, n), CellCoord(p[2], tc, n)>>

\* SpatialGrid.add
add(g, p, tc, n) ==
    LET key == getKey(p, tc, n)
    IN IF key \in DOMAIN g
       THEN [g EXCEPT ![key] = Append(@, p)]
       ELSE [k \in DOMAIN g \cup {key} |-> IF k = key THEN <<p>> ELSE g[k]]

DistSq(a, b) == (a[1] - b[1]) * (a[1] - b[1]) + (a[2] - b[2]) * (a[2] - b[2])

SetMin(S) == CHOOSE m \in S : \A o \in S : m <= o

\* A scan of the 3 x 3 neighbourhood only.
getMinDistance_oneCell(g, c, tc, n) ==
    LET key == getKey(c, tc, n)
        near == {k \in DOMAIN g : /\ k[1] - key[1] \in -1..1
                                  /\ k[2] - key[2] \in -1..1}
    IN SetMin({Infinity} \cup
              UNION {{DistSq(c, g[k][j]) : j \in 1..Len(g[k])} : k \in near})

\* SpatialGrid.getMinDistance, as the squared distance (Math.sqrt is
\* monotonic, so comparisons of the results are those of the squares).
getMinDistance(g, c, tc, n) ==
    LET key == getKey(c, tc, n)
        near == {k \in DOMAIN g : /\ k[1] - key[1] \in -2..2
                                  /\ k[2] - key[2] \in -2..2}
    IN SetMin({Infinity} \cup
              UNION {{DistSq(c, g[k][j]) : j \in 1..Len(g[k])} : k \in near})


\* ------------------------------------------------------ worker requests
MaxWidth == 4
MaxHeight == 2
MaxNumPoints == 4
MaxCandidates == 2

WidthValues == -1..MaxWidth
HeightValues == -1..MaxHeight
GenNumPoints == -1..MaxNumPoints
CandidateValues == 1..MaxCandidates
GenSeeds == {0, 1, 42, 218}
Algorithms == {"mitchell", "bridson"}

\* Requests for as many points as a 4 x 4 grid has cells, and one more: the
\* grid fills up and the last cells are hard to hit.
SaturatingMessages ==
    {[width |-> 4, height |-> 4, numPoints |-> n, candidatesPerPoint |-> 1,
      seed |-> 1492, algorithm |-> "mitchell"] : n \in {16, 17}}

\* A request whose calibration comes within one point of the target in none
\* of its trials.
CalibrationMessages ==
    {[width |-> 4, height |-> 4, numPoints |-> 9, candidatesPerPoint |-> 2,
      seed |-> 108, algorithm |-> "bridson"]}

\* WorkerMessage
WorkerMessages ==
    {m \in [width : WidthValues, height : HeightValues,
            numPoints : GenNumPoints, candidatesPerPoint : CandidateValues,
            seed : GenSeeds, algorithm : Algorithms] :
        \* generateBridsonPoints is not given candidatesPerPoint
        m.algorithm = "bridson" => m.candidatesPerPoint = MaxCandidates}
    \cup SaturatingMessages \cup CalibrationMessages

\* bestCandidate = null
Null == <<>>
NoStep == [drawn |-> <<>>, probes |-> <<>>, placed |-> Null]
EmptyGrid == [k \in {} |-> <<>>]

mitchellVars == <<loopI, genPoints, filledCells, grid>>
bridsonVars == <<rMin, rMax, iter, r, bestPoints, bestDiff, samples, active,
                 cellGrid, trials>>
genVars == <<req, gpc, run, t, lastStep, response, response1, trials1,
             mitchellVars, bridsonVars>>

\* The worker before a message arrives.
GenIdleWith(m) ==
    /\ req = m
    /\ gpc = "idle"
    /\ run = 1
    /\ t = <<0, 0>>
    /\ loopI = 0
    /\ genPoints = <<>>
    /\ filledCells = {}
    /\ grid = EmptyGrid
    /\ lastStep = NoStep
    /\ rMin = 0
    /\ rMax = 0
    /\ iter = 0
    /\ r = 0
    /\ bestPoints = <<>>
    /\ bestDiff = Infinity
    /\ samples = <<>>
    /\ active = <<>>
    /\ cellGrid = <<>>
    /\ trials = <<>>
    /\ trials1 = <<>>
    /\ response = <<>>
    /\ response1 = <<>>

GenIdle ==
    GenIdleWith([width |-> 1, height |-> 1, numPoints |-> 0,
                 candidatesPerPoint |-> 1, seed |-> 0,
                 algorithm |-> "mitchell"])

GenInit == \E m \in WorkerMessages : GenIdleWith(m)

\* ------------------------------------------------ generateMitchellPoints
totalCells == req.width * req.height
gridPoints == Max(req.numPoints, 1)

\* FallbackProbes: attempt < 100
FallbackProbes == 100

\* { x: Math.floor(random() * width), y: Math.floor(random() * height) }
\* from the two draws rx and ry, with the generator state after them.
drawCellFrom(rx, ry) ==
    [t |-> ry.t,
     cell |-> <<FloorMul(rx.u, req.width), FloorMul(ry.u, req.height)>>]
drawCellAfter(rx) == drawCellFrom(rx, random(rx.t))
drawCell(s) == drawCellAfter(random(s))

\* points.length === 0 ? Infinity : grid.getMinDistance(candidate)
candidateDistance(candidate) ==
    IF Len(genPoints) = 0 THEN Infinity
    ELSE getMinDistance(grid, candidate, totalCells, gridPoints)

\* The candidate loop of one point (lines 114-130), from candidate c on.
RECURSIVE candidateLoop(_, _, _, _, _)
RECURSIVE considerCandidate(_, _, _, _, _)
RECURSIVE compareCandidate(_, _, _, _, _, _)
candidateLoop(c, s, bestCandidate, bestDistance, drawn) ==
    IF c >= req.candidatesPerPoint
    THEN [t |-> s, bestCandidate |-> bestCandidate, drawn |-> drawn]
    ELSE considerCandidate(c, drawCell(s), bestCandidate, bestDistance, drawn)

\* if (filledCells.has(cellKey)) continue
considerCandidate(c, d, bestCandidate, bestDistance, drawn) ==
    IF d.cell \in filledCells
    THEN candidateLoop(c + 1, d.t, bestCandidate, bestDistance,
                       Append(drawn, d.cell))
    ELSE compareCandidate(c, d, candidateDistance(d.cell), bestCandidate,
                          bestDistance, drawn)

\* A comparison with >= : on equal distances the later candidate wins.
compareCandidate_lastWins(c, d, dist, bestCandidate, bestDistance, drawn) ==
    IF dist >= bestDistance
    THEN candidateLoop(c + 1, d.t, d.cell, dist, Append(drawn, d.cell))
    ELSE candidateLoop(c + 1, d.t, bestCandidate, bestDistance,
                       Append(drawn, d.cell))

\* if (dist > bestDistance) { bestDistance = dist; bestCandidate = candidate }
compareCandidate(c, d, dist, bestCandidate, bestDistance, drawn) ==
    IF dist > bestDistance
    THEN candidateLoop(c + 1, d.t, d.cell, dist, Append(drawn, d.cell))
    ELSE candidateLoop(c + 1, d.t, bestCandidate, bestDistance,
                       Append(drawn, d.cell))

\* The fallback probes (lines 133-143), from attempt on.
RECURSIVE fallbackLoop(_, _, _)
RECURSIVE fallbackProbe(_, _, _)
fallbackLoop(attempt, s, probes) ==
    IF attempt >= FallbackProbes
    THEN [t |-> s, bestCandidate |-> Null, probes |-> probes]
    ELSE fallbackProbe(attempt, drawCell(s), probes)

\* if (!filledCells.has(cellKey)) { bestCandidate = { x, y }; break }
fallbackProbe(attempt, d, probes) ==
    IF d.cell \notin filledCells
    THEN [t |-> d.t, bestCandidate |-> d.cell, probes |-> Append(probes, d.cell)]
    ELSE fallbackLoop(attempt + 1, d.t, Append(probes, d.cell))

\* if (!bestCandidate) { ... the fallback probes ... }
fallback(cl) ==
    IF cl.bestCandidate = Null
    THEN fallbackLoop(0, cl.t, <<>>)
    ELSE [t |-> cl.t, bestCandidate |-> cl.bestCandidate, probes |-> <<>>]

\* for (let i = 0; i < numPoints && filledCells.size < totalCells; i++)
MitchellLoopCondition ==
    loopI < req.numPoints /\ Cardinality(filledCells) < totalCells

\* generateMitchellPoints, up to its loop (lines 97-107).
generateMitchellPoints ==
    /\ gpc' = "mitchell"
    /\ t' = createSeededRandom(req.seed)
    /\ loopI' = 0
    /\ genPoints' = <<>>
    /\ filledCells' = {}
    /\ grid' = EmptyGrid
    /\ lastStep' = NoStep
    /\ UNCHANGED <<req, run, response, response1, trials1, bridsonVars>>

\* A placement that leaves the cell out of filledCells.
filledCellsAdd_skipped(cells, cell) == cells

\* filledCells.add(cellKey)
filledCellsAdd(cells, cell) == cells \cup {cell}

\* if (bestCandidate) { ... } (lines 145-150), after the loops left cl and fb
placeBest(cl, fb) ==
    /\ t' = fb.t
    /\ lastStep' = [drawn |-> cl.drawn, probes |-> fb.probes,
                    placed |-> fb.bestCandidate]
    /\ IF fb.bestCandidate # Null
       THEN /\ filledCells' = filledCellsAdd(filledCells, fb.bestCandidate)
            /\ genPoints' = Append(genPoints, fb.bestCandidate)
            /\ grid' = add(grid, fb.bestCandidate, totalCells, gridPoints)
       ELSE UNCHANGED <<filledCells, genPoints, grid>>

placeAfter(cl) == placeBest(cl, fallback(cl))

\* One iteration of the loop of generateMitchellPoints (lines 109-151).
MitchellIter ==
    /\ gpc = "mitchell"
    /\ MitchellLoopCondition
    /\ placeAfter(candidateLoop(0, t, Null, -1, <<>>))
    /\ loopI' = loopI + 1
    /\ UNCHANGED <<req, gpc, run, response, response1, trials1, bridsonVars>>

\* return points; self.postMessage(points)
MitchellReturn ==
    /\ gpc = "mitchell"
    /\ ~MitchellLoopCondition
    /\ response' = genPoints
    /\ gpc' = "posted"
    /\ UNCHANGED <<req, run, t, lastStep, response1, trials1, mitchellVars,
                   bridsonVars>>

\* -------------------------------------------------- double arithmetic
\* Doubles that are not integers (coordinates, radii) are fixed-point
\* numbers: Unit steps to the grid unit for coordinates and lengths, and
\* Unit * Fine steps to the grid unit for rMin, rMax and r, so that the
\* midpoints of the calibration are exact.
Unit == 256
Fine == 256

RECURSIVE SqrtSearch(_, _, _)
SqrtSearch(n, lo, hi) ==
    IF lo >= hi THEN lo
    ELSE LET mid == (lo + hi + 1) \div 2
         IN IF mid * mid <= n THEN SqrtSearch(n, mid, hi)
            ELSE SqrtSearch(n, lo, mid - 1)
\* Math.sqrt, rounded down (n < 4096 * 4096)
Sqrt(n) == SqrtSearch(n, 0, 4095)

\* Math.cos(2 * Math.PI * d / 64) * 1024 for the direction d of 0..63
CosTable ==
    <<1024, 1019, 1004, 980, 946, 903, 851, 792, 724, 650, 569, 483, 392,
      297, 200, 100, 0, -100, -200, -297, -392, -483, -569, -650, -724, -792,
      -851, -903, -946, -980, -1004, -1019, -1024, -1019, -1004, -980, -946,
      -903, -851, -792, -724, -650, -569, -483, -392, -297, -200, -100, 0,
      100, 200, 297, 392, 483, 569, 650, 724, 792, 851, 903, 946, 980, 1004,
      1019>>
Cos(d) == CosTable[(d % 64) + 1]
Sin(d) == CosTable[((d + 48) % 64) + 1]

\* -------------------------------------------------------------- runBridson
\* k = 30: attempts per active point
AttemptsPerActive == 30
\* maxIterations = 8
MaxIterations == 8

\* r in coordinate steps
Radius == r \div Fine
\* cellSize = r / Math.SQRT2
cellSize == (Radius * 7071) \div 10000
CeilDiv(a, b) == -((-a) \div b)
gridW == CeilDiv(req.width * Unit, cellSize)
gridH == CeilDiv(req.height * Unit, cellSize)
gridIndex(gx, gy) == gy * gridW + gx
pointToCell(p) == <<p[1] \div cellSize, p[2] \div cellSize>>

\* insertSample on the state st = [samples, active, cellGrid]
insertSample(st, p) ==
    LET idx == Len(st.samples)
        c == pointToCell(p)
    IN [samples |-> Append(st.samples, p),
        active |-> Append(st.active, idx),
        cellGrid |-> IF c[1] >= 0 /\ c[1] < gridW /\ c[2] >= 0 /\ c[2] < gridH
                     THEN [st.cellGrid EXCEPT ![gridIndex(c[1], c[2]) + 1] = idx]
                     ELSE st.cellGrid]

\* A scan of the +/-1-cell neighbourhood only.
isFarEnough_oneCell(p) ==
    LET c == pointToCell(p)
        x0 == Max(0, c[1] - 1)
        x1 == Min(gridW - 1, c[1] + 1)
        y0 == Max(0, c[2] - 1)
        y1 == Min(gridH - 1, c[2] + 1)
    IN \A y \in y0..y1 : \A x \in x0..x1 :
           LET sIdx == cellGrid[gridIndex(x, y) + 1]
           IN sIdx = -1 \/ ~(DistSq(p, samples[sIdx + 1]) < Radius * Radius)

\* isFarEnough
isFarEnough(p) ==
    LET c == pointToCell(p)
        x0 == Max(0, c[1] - 2)
        x1 == Min(gridW - 1, c[1] + 2)
        y0 == Max(0, c[2] - 2)
        y1 == Min(gridH - 1, c[2] + 2)
    IN \A y \in y0..y1 : \A x \in x0..x1 :
           LET sIdx == cellGrid[gridIndex(x, y) + 1]
           IN sIdx = -1 \/ ~(DistSq(p, samples[sIdx + 1]) < Radius * Radius)

\* randomInAnnulus from the two draws u and v: the direction is u in 64ths
\* of the circle, v keeps its 8 leading bits.
randomInAnnulus(center, u, v) ==
    LET d == u[1] \div 1024
        rad == Sqrt((3 * Radius * Radius * (v[1] \div 256)) \div 256
                    + Radius * Radius)
    IN <<center[1] + (rad * Cos(d)) \div 1024,
         center[2] + (rad * Sin(d)) \div 1024>>

inBounds(p) ==
    /\ p[1] >= 0 /\ p[1] < req.width * Unit
    /\ p[2] >= 0 /\ p[2] < req.height * Unit

\* The attempt loop around the sample s (lines 318-325), from attempt on:
\* the first candidate that is in bounds and far enough, or Null.
RECURSIVE attemptLoop(_, _, _)
attemptLoop(attempt, st, s) ==
    IF attempt >= AttemptsPerActive THEN [t |-> st, cand |-> Null]
    ELSE LET ru == random(st)
             rv == random(ru.t)
             cand == randomInAnnulus(s, ru.u, rv.u)
         IN IF inBounds(cand) /\ isFarEnough(cand)
            THEN [t |-> rv.t, cand |-> cand]
            ELSE attemptLoop(attempt + 1, rv.t, s)

\* A retirement that leaves the active list as it is.
swapRemove_keepsAll(a, ai) == a

\* active.pop(), then active[ai] = last when ai is still an index
swapRemove(a, ai) ==
    LET last == a[Len(a)]
        popped == SubSeq(a, 1, Len(a) - 1)
    IN IF ai < Len(popped) THEN [popped EXCEPT ![ai + 1] = last] ELSE popped

\* ----------------------------------------------- generateBridsonPoints
targetPoints == Min(req.numPoints, totalCells)

\* generateBridsonPoints, up to its calibration loop (lines 164-181).
generateBridsonPoints ==
    /\ t' = t
    /\ IF req.numPoints <= 0 \/ req.width <= 0 \/ req.height <= 0
       THEN /\ response' = <<>>
            /\ gpc' = "posted"
            /\ UNCHANGED <<rMin, rMax, iter, bestPoints, bestDiff, trials>>
       ELSE /\ rMin' = (Unit * Fine) \div 2
            /\ rMax' = Sqrt((totalCells * Unit * Unit * 10)
                              \div Max(targetPoints * 6, 10)) * 2 * Fine
            /\ iter' = 0
            /\ bestPoints' = <<>>
            /\ bestDiff' = Infinity
            /\ trials' = <<>>
            /\ gpc' = "calibrate"
            /\ UNCHANGED response
    /\ UNCHANGED <<req, run, lastStep, response1, trials1, r, samples, active,
                   cellGrid, mitchellVars>>

\* self.onmessage: take the message and enter the generator it names.
HandleMessage ==
    /\ gpc = "idle"
    /\ IF req.algorithm = "bridson"
       THEN generateBridsonPoints
       ELSE generateMitchellPoints

\* A trial at the upper end of the interval instead of its midpoint.
TrialStart_atRMax ==
    /\ gpc = "calibrate"
    /\ iter < MaxIterations
    /\ r' = rMax
    /\ t' = createSeededRandom(req.seed + iter * 1000)
    /\ samples' = <<>>
    /\ active' = <<>>
    /\ cellGrid' = <<>>
    /\ trials' = Append(trials, [r |-> r', seed |-> t', count |-> -1,
                                 samples |-> <<>>])
    /\ gpc' = "seedSample"
    /\ UNCHANGED <<req, run, lastStep, response, response1, trials1, rMin,
                   rMax, iter, bestPoints, bestDiff, mitchellVars>>

\* A calibration trial begins (lines 183-185): runBridson is called with
\* r and seed + iter * 1000 and creates its generator (line 233).
TrialStart ==
    /\ gpc = "calibrate"
    /\ iter < MaxIterations
    /\ r' = (rMin + rMax) \div 2
    /\ t' = createSeededRandom(req.seed + iter * 1000)
    /\ samples' = <<>>
    /\ active' = <<>>
    /\ cellGrid' = <<>>
    /\ trials' = Append(trials, [r |-> r', seed |-> t', count |-> -1,
                                 samples |-> <<>>])
    /\ gpc' = "seedSample"
    /\ UNCHANGED <<req, run, lastStep, response, response1, trials1, rMin,
                   rMax, iter, bestPoints, bestDiff, mitchellVars>>

\* runBridson up to its main loop (lines 235-310): the grid is allocated and
\* the single seed point inserted.
SeedSample ==
    /\ gpc = "seedSample"
    /\ LET rx == random(t)
           ry == random(rx.t)
           st == insertSample(
                     [samples |-> <<>>, active |-> <<>>,
                      cellGrid |-> [c \in 1..(gridW * gridH) |-> -1]],
                     <<FloorMul(rx.u, req.width * Unit),
                       FloorMul(ry.u, req.height * Unit)>>)
       IN /\ t' = ry.t
          /\ samples' = st.samples
          /\ active' = st.active
          /\ cellGrid' = st.cellGrid
    /\ gpc' = "runBridson"
    /\ UNCHANGED <<req, run, lastStep, response, response1, trials1, rMin,
                   rMax, iter, r, bestPoints, bestDiff, trials, mitchellVars>>

\* One iteration of the main loop of runBridson (lines 312-331).
BridsonIter ==
    /\ gpc = "runBridson"
    /\ Len(active) > 0
    /\ LET ra == random(t)
           ai == FloorMul(ra.u, Len(active))
           sIndex == active[ai + 1]
           s == samples[sIndex + 1]
           found == attemptLoop(0, ra.t, s)
       IN /\ t' = found.t
          /\ IF found.cand # Null
             THEN LET st == insertSample(
                                [samples |-> samples, active |-> active,
                                 cellGrid |-> cellGrid], found.cand)
                  IN /\ samples' = st.samples
                     /\ active' = st.active
                     /\ cellGrid' = st.cellGrid
             ELSE /\ active' = swapRemove(active, ai)
                  /\ UNCHANGED <<samples, cellGrid>>
          /\ lastStep' = [drawn |-> <<ai>>, probes |-> <<>>,
                          placed |-> found.cand]
    /\ UNCHANGED <<req, gpc, run, response, response1, trials1, rMin, rMax,
                   iter, r, bestPoints, bestDiff, trials, mitchellVars>>

\* A judgement that keeps the latest of the trials equally close to the
\* target (diff <= bestDiff).
TrialEnd_lastBest ==
    /\ gpc = "runBridson"
    /\ Len(active) = 0
    /\ LET count == Len(samples)
           diff == IF count >= targetPoints THEN count - targetPoints
                   ELSE targetPoints - count
           closeEnough == 20 * diff <= Max(20, targetPoints)
       IN /\ trials' = [trials EXCEPT ![Len(trials)] =
                         [@ EXCEPT !.count = count, !.samples = samples]]
          /\ IF diff <= bestDiff
             THEN bestDiff' = diff /\ bestPoints' = samples
             ELSE UNCHANGED <<bestDiff, bestPoints>>
          /\ IF closeEnough
             THEN /\ gpc' = "snap"
                  /\ UNCHANGED <<rMin, rMax, iter>>
             ELSE /\ IF count < targetPoints
                     THEN rMax' = r /\ rMin' = rMin
                     ELSE rMin' = r /\ rMax' = rMax
                  /\ iter' = iter + 1
                  /\ gpc' = IF iter + 1 < MaxIterations THEN "calibrate"
                            ELSE "snap"
    /\ UNCHANGED <<req, run, t, lastStep, response, response1, trials1, r,
                   samples, active, cellGrid, mitchellVars>>

\* runBridson returns and the calibration loop judges the trial
\* (lines 187-206).
TrialEnd ==
    /\ gpc = "runBridson"
    /\ Len(active) = 0
    /\ LET count == Len(samples)
           diff == IF count >= targetPoints THEN count - targetPoints
                   ELSE targetPoints - count
           closeEnough == 20 * diff <= Max(20, targetPoints)
       IN /\ trials' = [trials EXCEPT ![Len(trials)] =
                         [@ EXCEPT !.count = count, !.samples = samples]]
          /\ IF diff < bestDiff
             THEN bestDiff' = diff /\ bestPoints' = samples
             ELSE UNCHANGED <<bestDiff, bestPoints>>
          /\ IF closeEnough
             THEN /\ gpc' = "snap"
                  /\ UNCHANGED <<rMin, rMax, iter>>
             ELSE /\ IF count < targetPoints
                     THEN rMax' = r /\ rMin' = rMin
                     ELSE rMin' = r /\ rMax' = rMax
                  /\ iter' = iter + 1
                  /\ gpc' = IF iter + 1 < MaxIterations THEN "calibrate"
                            ELSE "snap"
    /\ UNCHANGED <<req, run, t, lastStep, response, response1, trials1, r,
                   samples, active, cellGrid, mitchellVars>>

\* Math.floor of a coordinate
Floor(x) == x \div Unit

\* A snapping loop that keeps every in-bounds cell, repeated or not.
RECURSIVE uniquePixels_noDedupe(_, _, _)
uniquePixels_noDedupe(ps, j, acc) ==
    IF j > Len(ps) THEN acc
    ELSE LET px == ps[j][1] \div Unit
             py == ps[j][2] \div Unit
         IN IF px >= 0 /\ px < req.width /\ py >= 0 /\ py < req.height
            THEN uniquePixels_noDedupe(ps, j + 1, Append(acc, <<px, py>>))
            ELSE uniquePixels_noDedupe(ps, j + 1, acc)

\* The snapping loop (lines 210-222) over the points ps, from index j on:
\* the values of uniquePixels in insertion order.
RECURSIVE uniquePixels(_, _, _)
uniquePixels(ps, j, acc) ==
    IF j > Len(ps) THEN acc
    ELSE LET px == Floor(ps[j][1])
             py == Floor(ps[j][2])
         IN IF /\ px >= 0 /\ px < req.width /\ py >= 0 /\ py < req.height
               /\ \A m \in 1..Len(acc) : acc[m] # <<px, py>>
            THEN uniquePixels(ps, j + 1, Append(acc, <<px, py>>))
            ELSE uniquePixels(ps, j + 1, acc)

\* return Array.from(uniquePixels.values()); self.postMessage(points)
BridsonReturn ==
    /\ gpc = "snap"
    /\ response' = uniquePixels(bestPoints, 1, <<>>)
    /\ gpc' = "posted"
    /\ UNCHANGED <<req, run, t, lastStep, response1, trials1, rMin, rMax,
                   iter, r, bestPoints, bestDiff, samples, active, cellGrid,
                   trials, mitchellVars>>

\* The same message arrives a second time.
NextRun ==
    /\ gpc = "posted"
    /\ run = 1
    /\ run' = 2
    /\ response1' = response
    /\ trials1' = trials
    /\ gpc' = "idle"
    /\ UNCHANGED <<req, t, lastStep, response, mitchellVars, bridsonVars>>

\* ------------------------------------------------ PointRasterizer (4.7)
rasterVars == <<rasterPoints, pixelSize, chunkSize, animId, cursor, buffer,
                visible, tick, cancelled, completed, chunksDrawn>>

MaxRasterPoints == 3
MaxPixelSize == 2
MaxChunkSize == 2
MaxAnimations == 2
BufferSize == 3

RasterCells == {<<0, 0>>, <<1, 0>>, <<1, 1>>}
PointSets == UNION {[1..n -> RasterCells] : n \in 0..MaxRasterPoints}

RasterIdleWith(ps, px, cs) ==
    /\ rasterPoints = ps
    /\ pixelSize = px
    /\ chunkSize = cs
    /\ animId = 0
    /\ cursor = 0
    /\ buffer = {}
    /\ visible = {}
    /\ tick = 0
    /\ cancelled = {}
    /\ completed = {}
    /\ chunksDrawn = <<>>

RasterIdle == RasterIdleWith(<<>>, 1, 1)

RasterInit ==
    \E ps \in PointSets, px \in 1..MaxPixelSize, cs \in 1..MaxChunkSize :
        RasterIdleWith(ps, px, cs)

\* The pixelSize x pixelSize block anchored at (x * pixelSize, y * pixelSize),
\* clipped to the buffer.
fillBlock(p) ==
    {px \in (0..(BufferSize - 1)) \X (0..(BufferSize - 1)) :
        /\ px[1] \in (p[1] * pixelSize)..(p[1] * pixelSize + pixelSize - 1)
        /\ px[2] \in (p[2] * pixelSize)..(p[2] * pixelSize + pixelSize - 1)}

\* The points of the chunk that starts after the first c points.
chunkOf(c) ==
    {rasterPoints[j] : j \in (c + 1)..Min(c + chunkSize, Len(rasterPoints))}

\* An animated rasterization starts: any sequence in progress is cancelled
\* first, the buffer is filled with the background colour and the first
\* chunk is scheduled.
renderAnimated ==
    /\ animId < MaxAnimations
    /\ cancelled' = IF tick # 0 THEN cancelled \cup {tick} ELSE cancelled
    /\ animId' = animId + 1
    /\ cursor' = 0
    /\ buffer' = {}
    /\ visible' = {}
    /\ tick' = animId + 1
    /\ UNCHANGED <<rasterPoints, pixelSize, chunkSize, completed, chunksDrawn>>

\* A tick that draws its chunk whether or not the handle was invoked.
drawChunk_ignoresCancel ==
    /\ tick # 0
    /\ buffer' = buffer \cup UNION {fillBlock(p) : p \in chunkOf(cursor)}
    /\ visible' = buffer'
    /\ cursor' = Min(cursor + chunkSize, Len(rasterPoints))
    /\ chunksDrawn' = Append(chunksDrawn, tick)
    /\ IF cursor' >= Len(rasterPoints)
       THEN completed' = completed \cup {tick} /\ tick' = 0
       ELSE UNCHANGED <<completed, tick>>
    /\ UNCHANGED <<rasterPoints, pixelSize, chunkSize, animId, cancelled>>

\* A scheduled tick: the cancellation flag is checked first; otherwise the
\* next chunk is drawn and committed, and then either the completion
\* callback fires or the next chunk is scheduled.
drawChunk ==
    /\ tick # 0
    /\ IF tick \in cancelled
       THEN /\ tick' = 0
            /\ UNCHANGED <<buffer, visible, cursor, chunksDrawn, completed>>
       ELSE /\ buffer' = buffer \cup UNION {fillBlock(p) : p \in chunkOf(cursor)}
            /\ visible' = buffer'
            /\ cursor' = Min(cursor + chunkSize, Len(rasterPoints))
            /\ chunksDrawn' = Append(chunksDrawn, tick)
            /\ IF cursor' >= Len(rasterPoints)
               THEN completed' = completed \cup {tick} /\ tick' = 0
               ELSE UNCHANGED <<completed, tick>>
    /\ UNCHANGED <<rasterPoints, pixelSize, chunkSize, animId, cancelled>>

\* The cancellation handle of the current sequence is invoked.
cancel ==
    /\ animId > 0
    /\ animId \notin cancelled
    /\ cancelled' = cancelled \cup {animId}
    /\ UNCHANGED <<rasterPoints, pixelSize, chunkSize, animId, cursor, buffer,
                   visible, tick, completed, chunksDrawn>>

\* ------------------------------------- renderBlueNoise (lib/blueNoise.ts)
renderVars == <<renderCall, renderLocals, canvas, data, writes, rpc>>

MaxDimension == 3
MaxRenderPoints == 2

\* intensity is documented as 0-100; the function takes any number
IntensityValues == {-100, 0, 25, 50, 100}

\* hexToRgb, on the two colours the page starts with
hexToRgb(hex) ==
    IF hex = "#00d4ff" THEN <<0, 212, 255>>
    ELSE IF hex = "#0a0f14" THEN <<10, 15, 20>>
    ELSE <<0, 0, 0>>

\* Math.ceil(width / pixelSize)
gridSize(size, ps) == CeilDiv(size, ps)

\* Math.floor((intensity / 100) * maxPoints * 0.5)
numPointsOf(intensity, maxPoints) == (intensity * maxPoints) \div 200

\* The values random() * size takes, to the half cell: random() returns
\* seed / 0x7fffffff, which lies in [0, 1].
Coordinates(size) ==
    {k * Unit + Unit \div 2 : k \in 0..(size - 1)} \cup {0, size * Unit}

\* generateBlueNoisePoints(gridWidth, gridHeight, numPoints, 20, seed): one
\* point is pushed in each of its numPoints iterations, at coordinates
\* (random() * width, random() * height).  The arithmetic of its generator
\* (a product beyond 2^53, rounded) is not followed: every array of that
\* length and range stands for some seed.
generateBlueNoisePoints(w, h, n) ==
    [1..Max(n, 0) -> Coordinates(w) \X Coordinates(h)]

NoLocals == [gridWidth |-> 0, gridHeight |-> 0, maxPoints |-> 0,
             numPoints |-> 0, points |-> <<>>, next |-> 1]

RenderIdleWith(c) ==
    /\ renderCall = c
    /\ renderLocals = NoLocals
    \* a new canvas is transparent black
    /\ canvas = [i \in 0..(4 * c.width * c.height - 1) |-> 0]
    /\ data = <<>>
    /\ writes = {}
    /\ rpc = "idle"

RenderCall(d, ps, i) ==
    [width |-> d, height |-> d, pixelSize |-> ps, intensity |-> i,
     foregroundColor |-> "#00d4ff", backgroundColor |-> "#0a0f14"]

RenderIdle == RenderIdleWith(RenderCall(1, 1, 0))

\* BlueNoiseCanvas calls renderBlueNoise(ctx, dimension, dimension, ...).
RenderInit ==
    \E d \in 1..MaxDimension, ps \in 1..MaxPixelSize, i \in IntensityValues :
        /\ numPointsOf(i, gridSize(d, ps) * gridSize(d, ps)) <= MaxRenderPoints
        /\ RenderIdleWith(RenderCall(d, ps, i))

\* The bytes of an opaque colour at index i of an image
colourByte(rgb, i) == IF i % 4 = 3 THEN 255 ELSE rgb[(i % 4) + 1]

\* ctx.fillStyle = backgroundColor; ctx.fillRect(0, 0, width, height)
fillRect(c, colour) == [i \in DOMAIN c |-> colourByte(hexToRgb(colour), i)]

\* renderBlueNoise up to the background loop (lines 98-129): the canvas is
\* cleared, the number of points computed, the points generated and the
\* image data fetched.
renderBlueNoise ==
    /\ rpc = "idle"
    /\ canvas' = fillRect(canvas, renderCall.backgroundColor)
    /\ LET gw == gridSize(renderCall.width, renderCall.pixelSize)
           gh == gridSize(renderCall.height, renderCall.pixelSize)
           n == numPointsOf(renderCall.intensity, gw * gh)
       IN IF n = 0
          THEN /\ renderLocals' = [gridWidth |-> gw, gridHeight |-> gh,
                                   maxPoints |-> gw * gh, numPoints |-> n,
                                   points |-> <<>>, next |-> 1]
               /\ rpc' = "returned"
               /\ data' = data
          ELSE /\ \E ps \in generateBlueNoisePoints(gw, gh, n) :
                    renderLocals' = [gridWidth |-> gw, gridHeight |-> gh,
                                     maxPoints |-> gw * gh, numPoints |-> n,
                                     points |-> ps, next |-> 1]
               /\ rpc' = "fill"
               /\ data' = canvas'
    /\ UNCHANGED <<renderCall, writes>>

\* The background loop (lines 131-136).
fillBackground ==
    /\ rpc = "fill"
    /\ data' = [i \in DOMAIN data |->
                   colourByte(hexToRgb(renderCall.backgroundColor), i)]
    /\ writes' = writes \cup DOMAIN data
    /\ rpc' = "draw"
    /\ UNCHANGED <<renderCall, renderLocals, canvas>>

\* A block anchored at the coordinate itself, not at its cell.
blockStart_unfloored(c, ps) == (c * ps) \div Unit

\* Math.floor(point.x) * pixelSize
blockStart(c, ps) == Floor(c) * ps

\* The indices idx of the pixels the two inner loops reach for the point p
\* (lines 143-148).
blockIndices(p) ==
    LET startX == blockStart(p[1], renderCall.pixelSize)
        startY == blockStart(p[2], renderCall.pixelSize)
    IN {((startY + py) * renderCall.width + (startX + px)) * 4 :
           <<px, py>> \in
               {o \in (0..(renderCall.pixelSize - 1))
                        \X (0..(renderCall.pixelSize - 1)) :
                   /\ startY + o[2] < renderCall.height
                   /\ startX + o[1] < renderCall.width}}

\* One iteration of for (const point of points) (lines 139-155); an
\* assignment beyond the end of a typed array has no effect.
drawPoint ==
    /\ rpc = "draw"
    /\ renderLocals.next <= Len(renderLocals.points)
    /\ LET idxs == blockIndices(renderLocals.points[renderLocals.next])
           bytes == {idx + j : idx \in idxs, j \in 0..3}
       IN /\ data' = [i \in DOMAIN data |->
                         IF i \in bytes
                         THEN colourByte(hexToRgb(renderCall.foregroundColor), i)
                         ELSE data[i]]
          /\ writes' = writes \cup bytes
    /\ renderLocals' = [renderLocals EXCEPT !.next = @ + 1]
    /\ UNCHANGED <<renderCall, canvas, rpc>>

\* ctx.putImageData(imageData, 0, 0)
putImageData ==
    /\ rpc = "draw"
    /\ renderLocals.next > Len(renderLocals.points)
    /\ canvas' = data
    /\ rpc' = "returned"
    /\ UNCHANGED <<renderCall, renderLocals, data, writes>>


vars == <<hookVars, genVars, rasterVars, renderVars>>

Init == HookInit /\ GenIdle /\ RasterIdle /\ RenderIdle

Next ==
    \/ /\ \/ \E np \in NumPointsValues, sd \in SeedValues, fresh \in BOOLEAN :
                 Submit(np, sd, fresh)
          \/ Render
          \/ onmessage
          \/ cleanup
       /\ UNCHANGED <<genVars, rasterVars, renderVars>>

Spec == Init /\ [][Next]_vars

GenNext ==
    /\ \/ HandleMessage
       \/ MitchellIter
       \/ MitchellReturn
       \/ TrialStart
       \/ SeedSample
       \/ BridsonIter
       \/ TrialEnd
       \/ BridsonReturn
       \/ NextRun
    /\ UNCHANGED <<hookVars, rasterVars, renderVars>>

\* The worker with a message about to arrive, beside an unused hook.
InitGen == HookInit /\ GenInit /\ RasterIdle /\ RenderIdle

SpecGen == InitGen /\ [][GenNext]_vars

\* Some step of the handler can be taken: every position but the second
\* postMessage has a next statement.
GenEnabled == ~(gpc = "posted" /\ run = 2)

\* The handler is one JavaScript task: once started it runs on to its
\* postMessage without waiting for anything.  This is weak fairness of
\* GenNext, WF_vars(GenNext), written out with GenEnabled in the place of
\* ENABLED <<GenNext>>_vars.
SpecGenFair == SpecGen /\ ([]<>(~GenEnabled) \/ []<><<GenNext>>_vars)

\* ---- SpatialGrid on its own: any points added, in any order ----
MaxAdds == 2

\* A SpatialGrid as generateMitchellPoints constructs it (lines 104-107)
\* for a valid request, before any point is added.
GridInit ==
    \E m \in {w \in WorkerMessages :
                 /\ w.algorithm = "mitchell" /\ w.candidatesPerPoint = 1
                 /\ w.seed = 0
                 /\ w.width > 0 /\ w.height > 0 /\ w.numPoints > 0} :
        /\ GenIdleWith(m)

\* grid.add(p), with p remembered in genPoints
gridAdd(p) ==
    /\ Len(genPoints) < MaxAdds
    /\ grid' = add(grid, p, totalCells, gridPoints)
    /\ genPoints' = Append(genPoints, p)
    /\ UNCHANGED <<req, gpc, run, t, lastStep, response, response1, trials1,
                   loopI, filledCells, bridsonVars>>

InitGrid == HookInit /\ GridInit /\ RasterIdle /\ RenderIdle

GridNext ==
    /\ \E p \in (0..(req.width - 1)) \X (0..(req.height - 1)) : gridAdd(p)
    /\ UNCHANGED <<hookVars, rasterVars, renderVars>>

SpecGrid == InitGrid /\ [][GridNext]_vars

\* The rasterizer about to be used, beside an unused hook and worker.
InitRaster == HookInit /\ GenIdle /\ RasterInit /\ RenderIdle

RasterNext ==
    /\ \/ renderAnimated
       \/ drawChunk
       \/ cancel
    /\ UNCHANGED <<hookVars, genVars, renderVars>>

SpecRaster == InitRaster /\ [][RasterNext]_vars

\* renderBlueNoise about to be called, beside an unused hook, worker and
\* animated rasterizer.
InitRender == HookInit /\ GenIdle /\ RasterIdle /\ RenderInit

RenderNext ==
    /\ \/ renderBlueNoise
       \/ fillBackground
       \/ drawPoint
       \/ putImageData
    /\ UNCHANGED <<hookVars, genVars, rasterVars>>

SpecRender == InitRender /\ [][RenderNext]_vars

\* ====================================================== TaskExecutor claims
Last(s) == s[Len(s)]
Ids(s) == {s[i].id : i \in 1..Len(s)}
Quiet == inbox = <<>> /\ pendingRequestRef = NoRequest
ExpectedPoints(request) ==
    IF request.numPoints = 0 THEN EmptyPoints ELSE WorkerOutput(request)

\* C1: the requests posted to the worker are a subsequence of the submitted
\* requests, in the same order, and once nothing is in flight and nothing is
\* pending the last request posted is the most recently submitted one.
C1_PostedIsOrderedSubsequenceEndingWithLatest ==
    /\ \A i \in 1..Len(posted) :
           /\ posted[i].id \in 1..Len(submitted)
           /\ submitted[posted[i].id] = posted[i]
    /\ \A i, j \in 1..Len(posted) : i < j => posted[i].id < posted[j].id
    /\ (submitted # <<>> /\ Quiet) =>
           (posted # <<>> /\ Last(posted) = Last(submitted))

\* C2: a request overwritten in the pending slot is never posted and never
\* delivers a completion; and R1, R2, R3 submitted while R1 is executing
\* give exactly the executions R1 then R3.
C2_SupersededNeverRuns ==
    /\ dropped \cap (Ids(posted) \cup Ids(delivered)) = {}
    /\ (/\ Len(submitted) = 3
        /\ \A i \in 1..3 : submitted[i].numPoints # 0
        /\ executingAtSubmit = <<0, 1, 1>>)
       => /\ posted \in {<<submitted[1]>>, <<submitted[1], submitted[3]>>}
          /\ (Quiet => delivered = <<submitted[1], submitted[3]>>)

\* C3: when the worker has answered every posted message (so that nothing
\* more happens unless a new request is submitted), isGenerating is false and
\* the consumer holds the output of the most recently submitted request, the
\* empty list when that request has numPoints = 0.
C3_LatestRequestWins ==
    (mounted /\ submitted # <<>> /\ inbox = <<>>) =>
        (~isGenerating /\ points = ExpectedPoints(Last(submitted)))

\* C4: at most one request is posted to the worker and not yet answered.
C4_AtMostOneInFlight == Len(inbox) <= 1

\* C5: every submit posts the request at once when no generation is
\* executing, and otherwise posts nothing and leaves exactly the submitted
\* request in the pending slot.
C5_SubmitStartsOrQueues ==
    [][Len(submitted') > Len(submitted) =>
         IF inbox = <<>>
         THEN posted' = Append(posted, Last(submitted'))
         ELSE posted' = posted /\ pendingRequestRef' = Last(submitted')]_vars

C7_TeardownSuppressesCompletion ==
    [][~mounted => UNCHANGED <<points, isGenerating, posted, delivered,
                               pendingRequestRef, inbox>>]_vars

\* C7 witness: torn down with one request in flight and one pending.
C7_Witness ==
    /\ ~mounted
    /\ inbox # <<>>
    /\ pendingRequestRef # NoRequest

\* ========================================================= generator claims
Posted == gpc = "posted"
Valid == req.width > 0 /\ req.height > 0

\* C8: handling the same message twice gives the same ordered point list;
\* for Bridson the trials of both runs have the same radii and counts, and
\* trial k is seeded with (seed + 1000 * k) >>> 0, k counting from 0.
C8_SameRequestSameOutput ==
    /\ \A k \in 1..Len(trials) :
           trials[k].seed = ToUint32(req.seed + 1000 * (k - 1))
    /\ (Posted /\ run = 2) => (response = response1 /\ trials = trials1)

\* C8 witness: a Bridson request answered twice, after a calibration of
\* several trials that kept at least two points.
C8_Witness ==
    /\ Posted /\ run = 2
    /\ req.algorithm = "bridson"
    /\ Len(trials) >= 2
    /\ Len(response) >= 2

InGrid(p) == p[1] \in 0..(req.width - 1) /\ p[2] \in 0..(req.height - 1)

\* C9: with width > 0 and height > 0 every point either generator has
\* placed or returns is an integer cell with 0 <= x < width, 0 <= y < height.
C9_PointsInBounds ==
    Valid => /\ \A k \in 1..Len(genPoints) : InGrid(genPoints[k])
             /\ \A k \in 1..Len(response) : InGrid(response[k])

\* C9 witness: a returned point on the last column and one on the first.
C9_Witness ==
    /\ Posted /\ Valid
    /\ req.width >= 3
    /\ \E k \in 1..Len(response) : response[k][1] = req.width - 1
    /\ \E k \in 1..Len(response) : response[k][1] = 0

\* C10: at every step of generateMitchellPoints the placed points are
\* pairwise distinct cells and filledCells is exactly the set of their
\* cells, so the returned list has no two equal points.
C10_MitchellCellsDistinct ==
    req.algorithm = "mitchell" =>
        /\ \A a, b \in 1..Len(genPoints) : a # b => genPoints[a] # genPoints[b]
        /\ filledCells = {genPoints[k] : k \in 1..Len(genPoints)}
        /\ \A a, b \in 1..Len(response) : a # b => response[a] # response[b]

\* C10 witness: a candidate fell on an occupied cell and was skipped, and
\* another point was placed in that iteration.
C10_Witness ==
    /\ gpc = "mitchell"
    /\ lastStep.placed # Null
    /\ Len(genPoints) >= 3
    /\ \E k \in 1..Len(lastStep.drawn) :
           lastStep.drawn[k] \in filledCells \ {lastStep.placed}

\* C11: for both algorithms the returned point list has at most numPoints
\* points (none when numPoints is negative).
C11_AtMostNumPoints ==
    Posted => Len(response) <= Max(req.numPoints, 0)

\* C12: a request with width <= 0 or height <= 0 or numPoints <= 0 is
\* answered with the empty point list, for both algorithms.
C12_InvalidRequestEmpty ==
    (Posted /\ (req.width <= 0 \/ req.height <= 0 \/ req.numPoints <= 0))
        => response = <<>>

\* C13: in every state of runBridson at radius r, any two distinct samples
\* (continuous coordinates, before snapping) are at distance >= r, and no
\* two of them share a cell of the grid.
C13_SamplesFarApart ==
    /\ \A a, b \in 1..Len(samples) :
           a # b => DistSq(samples[a], samples[b]) >= Radius * Radius
    /\ gpc = "runBridson" =>
           \A a \in 1..Len(samples) :
               LET c == pointToCell(samples[a])
               IN cellGrid[gridIndex(c[1], c[2]) + 1] = a - 1

\* C13 witness: a trial that accepted a candidate into a set of at least
\* three samples after an active sample had used up its attempts.
C13_Witness ==
    /\ gpc = "runBridson"
    /\ lastStep.placed # Null
    /\ Len(samples) >= 4
    /\ Len(active) < Len(samples)

\* ======================================================= rasterizer claims
\* C14: once the cancellation handle of an animated rasterization is
\* invoked, no further chunk of it is drawn and its completion callback
\* does not fire; the buffer stays as the last committed chunk left it.
C14_CancelStopsAnimation ==
    [][(animId \in cancelled /\ animId' = animId) =>
          /\ UNCHANGED <<buffer, visible, cursor, completed, chunksDrawn>>
          /\ visible = buffer]_vars

\* C14 witness: a sequence cancelled between two chunks, after its pending
\* tick has come and gone.
C14_Witness ==
    /\ animId \in cancelled
    /\ cursor > 0 /\ cursor < Len(rasterPoints)
    /\ tick = 0
    /\ animId \notin completed

\* ================================================ generator claims, continued
\* The points placed before the last iteration of generateMitchellPoints.
PlacedBefore ==
    IF lastStep.placed = Null THEN genPoints
    ELSE SubSeq(genPoints, 1, Len(genPoints) - 1)

\* The squared distance from c to the nearest of the points ps, all of
\* them considered.
TrueMinDistance(c, ps) ==
    SetMin({Infinity} \cup {DistSq(c, ps[j]) : j \in 1..Len(ps)})

\* C15: the candidate placed for a point is, among the candidates drawn for
\* that point, one with the largest true minimum distance to every point
\* placed before.
C15_FarthestOfAllPoints ==
    (gpc = "mitchell" /\ lastStep.placed # Null /\ lastStep.probes = <<>>) =>
        \A k \in 1..Len(lastStep.drawn) :
            TrueMinDistance(lastStep.drawn[k], PlacedBefore)
                <= TrueMinDistance(lastStep.placed, PlacedBefore)

\* ===================================================== hook claims, continued
\* C16: isGenerating is true exactly when a request has been posted to the
\* worker and its completion has not yet been received.
C16_IsGeneratingIffInFlight == isGenerating <=> (inbox # <<>>)

\* ================================================ generator claims, again
\* C17: when generateMitchellPoints returns, exactly numPoints points have
\* been placed or every grid cell is occupied; and after an iteration in
\* which every candidate and every fallback probe hit an occupied cell the
\* loop does not go on.
C17_StopsWhenDoneOrSaturated ==
    (req.algorithm = "mitchell" /\ Valid /\ req.numPoints >= 0) =>
        /\ Posted => \/ Len(response) = req.numPoints
                     \/ Cardinality(filledCells) = totalCells
        /\ (gpc = "mitchell" /\ loopI > 0 /\ lastStep.placed = Null)
               => ~MitchellLoopCondition

\* The SpatialGrid after grid.add of the first n of the points ps.
RECURSIVE GridOf(_, _)
GridOf(ps, n) ==
    IF n = 0 THEN EmptyGrid
    ELSE add(GridOf(ps, n - 1), ps[n], totalCells, gridPoints)

\* getMinDistance of the k-th candidate of the last iteration, on the grid
\* as it was before that iteration.
CandidateDistanceBefore(k) ==
    getMinDistance(GridOf(PlacedBefore, Len(PlacedBefore)), lastStep.drawn[k],
                   totalCells, gridPoints)

OccupiedBefore == {PlacedBefore[j] : j \in 1..Len(PlacedBefore)}

\* The candidates of the last iteration that fell on a free cell.
FreeCandidates ==
    {k \in 1..Len(lastStep.drawn) : lastStep.drawn[k] \notin OccupiedBefore}

\* C18: when a candidate drawn for a point is unoccupied, the placed point is
\* the unoccupied candidate with the largest getMinDistance, the earliest
\* drawn on ties, and no fallback probe is made; an occupied cell is never
\* placed.
C18_BestUnoccupiedCandidate ==
    (gpc = "mitchell" /\ loopI > 0) =>
        /\ Len(lastStep.drawn) = req.candidatesPerPoint
        /\ lastStep.placed \notin OccupiedBefore
        /\ IF FreeCandidates # {}
           THEN /\ lastStep.probes = <<>>
                /\ \E k \in FreeCandidates :
                       /\ lastStep.placed = lastStep.drawn[k]
                       /\ \A j \in FreeCandidates :
                              /\ CandidateDistanceBefore(j)
                                     <= CandidateDistanceBefore(k)
                              /\ j < k => CandidateDistanceBefore(j)
                                              < CandidateDistanceBefore(k)
           ELSE lastStep.probes # <<>>

\* C18 witness: two unoccupied candidates at different finite distances
\* from the points placed, the second drawn being the farther and placed.
C18_Witness ==
    /\ gpc = "mitchell" /\ loopI > 0
    /\ FreeCandidates = {1, 2}
    /\ lastStep.placed = lastStep.drawn[2]
    /\ CandidateDistanceBefore(2) < Infinity
    /\ CandidateDistanceBefore(1) < CandidateDistanceBefore(2)

\* |count - targetPoints| of the k-th trial
TrialDiff(k) ==
    IF trials[k].count >= targetPoints THEN trials[k].count - targetPoints
    ELSE targetPoints - trials[k].count

\* The k-th trial has ended within max(1, 0.05 * targetPoints) of the target.
TrialClose(k) ==
    trials[k].count # -1 /\ 20 * TrialDiff(k) <= Max(20, targetPoints)

\* The earliest of the trials closest to the target.
BestTrial ==
    CHOOSE b \in 1..Len(trials) :
        /\ \A k \in 1..Len(trials) : TrialDiff(b) <= TrialDiff(k)
        /\ \A k \in 1..(b - 1) : TrialDiff(b) < TrialDiff(k)

Calibrating == gpc \in {"calibrate", "seedSample", "runBridson"}

\* C19: the calibration runs at most 8 trials, ends with the first trial
\* whose count is within max(1, 0.05 * targetPoints) of targetPoints
\* (line 167: min(numPoints, width * height)), and snaps and returns the points of the
\* earliest of the trials closest to the target.
C19_CalibrationKeepsClosestTrial ==
    (req.algorithm = "bridson" /\ req.numPoints > 0 /\ Valid) =>
        /\ Len(trials) <= 8
        /\ \A k \in 1..Len(trials) :
               TrialClose(k) => (k = Len(trials) /\ ~Calibrating)
        /\ gpc = "calibrate" => Len(trials) < 8
        /\ gpc \in {"snap", "posted"} =>
               /\ TrialClose(Len(trials)) \/ Len(trials) = 8
               /\ bestPoints = trials[BestTrial].samples
        /\ Posted => response = uniquePixels(trials[BestTrial].samples, 1, <<>>)

\* C19 witness: eight trials, none of them close, two of them equally the
\* closest, the earlier one returned.
C19_Witness ==
    /\ Posted /\ req.algorithm = "bridson"
    /\ Len(trials) = 8
    /\ ~TrialClose(8)
    /\ \E k \in (BestTrial + 1)..8 : TrialDiff(k) = TrialDiff(BestTrial)
    /\ Len(response) >= 2

\* rMin = 0.5 at the start of the calibration
HalfUnit == (Unit * Fine) \div 2

SnappedCell(j) == <<Floor(bestPoints[j][1]), Floor(bestPoints[j][2])>>

\* The points of the selected trial that fall in the grid and whose cell no
\* earlier point of the trial has.
FirstOccurrences ==
    {j \in 1..Len(bestPoints) :
        /\ InGrid(SnappedCell(j))
        /\ \A i \in 1..(j - 1) : SnappedCell(i) # SnappedCell(j)}

\* C21: the list returned by generateBridsonPoints is the selected trial's
\* samples mapped to (floor x, floor y), cells outside the grid dropped and
\* only the first occurrence of each cell kept, in first-occurrence order;
\* it has no two equal points.
C21_SnappedFirstOccurrences ==
    (Posted /\ req.algorithm = "bridson" /\ req.numPoints > 0 /\ Valid) =>
        /\ Len(response) = Cardinality(FirstOccurrences)
        /\ \A m \in 1..Len(response) :
               \E j \in FirstOccurrences :
                   /\ response[m] = SnappedCell(j)
                   /\ Cardinality({i \in FirstOccurrences : i < j}) = m - 1
        /\ \A a, b \in 1..Len(response) : a # b => response[a] # response[b]

\* C21 witness: two samples of the selected trial share a cell, and the
\* cell is returned once among several.
C21_Witness ==
    /\ Posted /\ req.algorithm = "bridson"
    /\ Len(response) >= 2
    /\ Len(response) < Len(bestPoints)

\* The points added to the SpatialGrid whose cell is within 2 cells of the
\* cell of c on each axis.
NearPoints(c) ==
    {j \in 1..Len(genPoints) :
        /\ CellCoord(genPoints[j][1], totalCells, gridPoints)
             - CellCoord(c[1], totalCells, gridPoints) \in -2..2
        /\ CellCoord(genPoints[j][2], totalCells, gridPoints)
             - CellCoord(c[2], totalCells, gridPoints) \in -2..2}

\* The squared distance d2 is at most (2 * cellSize)^2, where
\* cellSize^2 = max(totalCells / (4 * gridPoints), 1).
WithinTwoCellSizes(d2) ==
    IF totalCells <= 4 * gridPoints THEN d2 <= 4
    ELSE d2 * gridPoints <= totalCells

AllCells == (0..(req.width - 1)) \X (0..(req.height - 1))

Range(f) == {f[j] : j \in 1..Len(f)}

\* C23: every request is answered (both times it is handled); an iteration
\* of the main loop of runBridson either inserts one new sample, which
\* becomes active, or removes the chosen entry from the active list and
\* leaves the others; the loop is left only with the active list empty;
\* generateMitchellPoints makes at most numPoints iterations of at most
\* candidatesPerPoint candidate draws and 100 fallback draws each.
C23_GeneratorsTerminate ==
    /\ <>(Posted /\ run = 2)
    /\ [](req.algorithm = "mitchell" =>
            /\ loopI <= Max(req.numPoints, 0)
            /\ Len(lastStep.drawn) <= req.candidatesPerPoint
            /\ Len(lastStep.probes) <= 100)
    /\ [][gpc = "runBridson" =>
            IF gpc' = "runBridson"
            THEN \/ /\ lastStep'.placed # Null
                    /\ samples' = Append(samples, lastStep'.placed)
                    /\ active' = Append(active, Len(samples))
                 \/ /\ samples' = samples
                    /\ Len(active') = Len(active) - 1
                    /\ Range(active') =
                         Range(active) \ {active[lastStep'.drawn[1] + 1]}
            ELSE active = <<>>]_vars

\* C23 witness: a trial of runBridson has ended after an entry was retired
\* from the middle of an active list of several.
C23_Witness ==
    /\ gpc = "runBridson"
    /\ lastStep.placed = Null
    /\ Len(lastStep.drawn) = 1
    /\ Len(active) >= 2
    /\ lastStep.drawn[1] < Len(active)
    /\ Len(samples) >= 4

\* ======================================================== rendering claims
\* The four bytes of the pixel (px, py) of an image of the call's width.
PixelAt(image, px, py) ==
    LET idx == (py * renderCall.width + px) * 4
    IN <<image[idx], image[idx + 1], image[idx + 2], image[idx + 3]>>

\* Some point's block holds the pixel (px, py).
Covered(px, py) ==
    \E j \in 1..Len(renderLocals.points) :
        LET cx == renderLocals.points[j][1] \div Unit
            cy == renderLocals.points[j][2] \div Unit
        IN /\ cx * renderCall.pixelSize <= px
           /\ px < cx * renderCall.pixelSize + renderCall.pixelSize
           /\ cy * renderCall.pixelSize <= py
           /\ py < cy * renderCall.pixelSize + renderCall.pixelSize

\* C24: after renderBlueNoise has drawn a non-empty array of points, a pixel
\* of the canvas has the foreground colour exactly when the block of some
\* point holds it and the background colour otherwise, always with alpha
\* 255; and no index of data outside the width x height image is ever
\* assigned to.
C24_ImmediateRenderBlocks ==
    /\ writes \subseteq 0..(4 * renderCall.width * renderCall.height - 1)
    /\ (rpc = "returned" /\ renderLocals.points # <<>>) =>
          \A px \in 0..(renderCall.width - 1),
             py \in 0..(renderCall.height - 1) :
              PixelAt(canvas, px, py) =
                  IF Covered(px, py)
                  THEN hexToRgb(renderCall.foregroundColor) \o <<255>>
                  ELSE hexToRgb(renderCall.backgroundColor) \o <<255>>

\* C24 witness: two points were drawn with blocks of 2 x 2 on a canvas of
\* odd width: one at a coordinate that is not an integer, one whose block
\* is clipped at the right edge; some pixel is covered and some is not.
C24_Witness ==
    /\ rpc = "returned"
    /\ Len(renderLocals.points) = 2
    /\ renderCall.pixelSize = 2
    /\ renderCall.width = 3
    /\ \E j \in 1..2 : renderLocals.points[j][1] % Unit # 0
    /\ \E j \in 1..2 :
          /\ (renderLocals.points[j][1] \div Unit) * 2 < 3
          /\ (renderLocals.points[j][1] \div Unit) * 2 + 2 > 3
    /\ \E px \in 0..2, py \in 0..2 : Covered(px, py)
    /\ \E px \in 0..2, py \in 0..2 : ~Covered(px, py)

\* Math.ceil(a / b) of positive integers: the least g with g * b >= a.
CeilOf(a, b) == CHOOSE g \in 0..a : g * b >= a /\ (g - 1) * b < a

\* C25: the parameters computed for a canvas dimension, pixel size and
\* density control are gridWidth = gridHeight = ceil(dimension / pixelSize)
\* and numPoints = floor((density / 100) * totalCells * 0.5), and numPoints
\* lies between 0 and 5 * totalCells, whatever the density control.
C25_ParametersClamped ==
    rpc # "idle" =>
        /\ renderLocals.gridWidth =
               CeilOf(renderCall.width, renderCall.pixelSize)
        /\ renderLocals.gridHeight = renderLocals.gridWidth
        /\ renderLocals.numPoints =
               (renderCall.intensity * renderLocals.gridWidth
                    * renderLocals.gridHeight) \div 200
        /\ renderLocals.numPoints >= 0
        /\ renderLocals.numPoints
               <= 5 * renderLocals.gridWidth * renderLocals.gridHeight

\* ================================================ TaskExecutor claims, more
\* C26: a generate() whose numPoints is 0 posts nothing to the worker, sets
\* points to the empty list, and leaves the pending slot, isGenerating, the
\* messages in flight and the worker itself as they were.
C26_ZeroSubmitFrame ==
    [][(/\ Len(submitted') = Len(submitted) + 1
        /\ Last(submitted').numPoints = 0)
       => /\ points' = EmptyPoints
          /\ posted' = posted
          /\ inbox' = inbox
          /\ pendingRequestRef' = pendingRequestRef
          /\ isGenerating' = isGenerating
          /\ workerAlive' = workerAlive]_vars

\* C26 witness: the last generate() had numPoints 0 and ran with one request
\* in flight and another pending; both are still there.
C26_Witness ==
    /\ submitted # <<>>
    /\ Last(submitted).numPoints = 0
    /\ points = EmptyPoints
    /\ inbox # <<>>
    /\ pendingRequestRef # NoRequest
    /\ isGenerating

\* C27: while the hook is mounted, a request sits in the pending slot only
\* if a message posted to the worker is still unanswered (its completion
\* would start the pending request).
C27_PendingOnlyWhileInFlight ==
    (mounted /\ pendingRequestRef # NoRequest) => inbox # <<>>
====
